---- MODULE Spec2Model ----
(***************************************************************************)
(* Model of the cache-curation service of llama-service.py:                *)
(* RequestAnalyzer.run / analyze_requests and the helpers it calls, over   *)
(* the Redis store reached through RedisClient.                            *)
(*                                                                         *)
(* A Redis hash is a function from field names to values; a key exists     *)
(* iff its hash has at least one field.  Texts produced by the language    *)
(* models are sequences of one-character strings.                          *)
(***************************************************************************)
EXTENDS Integers, Sequences, FiniteSets, TLC

(***************************************************************************)
(* Bounds of the model.                                                    *)
(***************************************************************************)
NumKeys   == 2    \* keys proxy:1 .. proxy:NumKeys
MaxCycles == 2    \* calls of analyze_requests that run follows
MaxRaces  == 1    \* keys another actor removes during one pass

Keys == 1..NumKeys

(***************************************************************************)
(* Program constants.                                                      *)
(***************************************************************************)
MinTTL       == 60       \* predict_optimal_ttl: max(60, ...)
MaxTTL       == 86400    \* predict_optimal_ttl: min(86400, ...)
DefaultTTL   == 3600     \* predict_optimal_ttl: return 3600
IdleHours    == 72       \* analyze_requests: 72 * 3600
RunInterval  == 600      \* run: time.sleep(600)
RetryDelay   == 60       \* run: time.sleep(60)
StartClock   == 400 * 3600  \* time.time() when the service starts

Max(a, b) == IF a > b THEN a ELSE b
Min(a, b) == IF a < b THEN a ELSE b

(***************************************************************************)
(* Text helpers: str.lower, str.strip, substring test, re.findall(r'\d+'). *)
(***************************************************************************)
UpperToLower ==
  [c \in {"D", "E", "F", "H", "L", "N", "O", "R", "S", "T", "X"} |->
     CASE c = "D" -> "d" [] c = "E" -> "e" [] c = "F" -> "f" [] c = "H" -> "h"
       [] c = "L" -> "l" [] c = "N" -> "n" [] c = "O" -> "o" [] c = "R" -> "r"
       [] c = "S" -> "s" [] c = "T" -> "t" [] c = "X" -> "x"]

LowerChar(c) == IF c \in DOMAIN UpperToLower THEN UpperToLower[c] ELSE c

Lower(s) == [i \in 1..Len(s) |-> LowerChar(s[i])]

RECURSIVE Strip(_)
Strip(s) ==
  IF s = << >> THEN s
  ELSE IF Head(s) = " " THEN Strip(Tail(s))
  ELSE IF s[Len(s)] = " " THEN Strip(SubSeq(s, 1, Len(s) - 1))
  ELSE s

Contains(s, p) ==
  \E i \in 1..(Len(s) - Len(p) + 1) : SubSeq(s, i, i + Len(p) - 1) = p

DigitVal ==
  [c \in {"0", "1", "2", "3", "4", "5", "6", "7", "8", "9"} |->
     CASE c = "0" -> 0 [] c = "1" -> 1 [] c = "2" -> 2 [] c = "3" -> 3
       [] c = "4" -> 4 [] c = "5" -> 5 [] c = "6" -> 6 [] c = "7" -> 7
       [] c = "8" -> 8 [] c = "9" -> 9]

IsDigit(c) == c \in DOMAIN DigitVal

\* the digits of the first maximal run of digits of s (re.findall(r'\d+', s)[0]),
\* << >> when s has no digit
RECURSIVE DigitRun(_)
DigitRun(s) ==
  IF s = << >> \/ ~IsDigit(Head(s)) THEN << >>
  ELSE <<Head(s)>> \o DigitRun(Tail(s))

RECURSIVE FirstNumber(_)
FirstNumber(s) ==
  IF s = << >> THEN << >>
  ELSE IF IsDigit(Head(s)) THEN DigitRun(s)
  ELSE FirstNumber(Tail(s))

\* int(digits)
RECURSIVE ToInt(_)
ToInt(d) ==
  IF d = << >> THEN 0
  ELSE 10 * ToInt(SubSeq(d, 1, Len(d) - 1)) + DigitVal[d[Len(d)]]

(***************************************************************************)
(* Outcomes of a model call: the call raises, or it generates a text.      *)
(***************************************************************************)
Raised == [ok |-> FALSE, text |-> << >>]
Text(t) == [ok |-> TRUE, text |-> t]

GuardOutputs ==
  { Raised,
    Text(<<"s", "a", "f", "e">>),
    Text(<<"N", "o">>),
    Text(<<" ", "n", "o", "t", " ", "a", "l", "l", "o", "w", "e", "d">>) }

PipeOutputs ==
  { Raised,
    Text(<<"D", "e", "l", "e", "t", "e">>),
    Text(<<"R", "E", "F", "R", "E", "S", "H">>),
    Text(<<"k", "e", "e", "p">>),
    Text(<<"r", "e", "f", "r", "e", "s", "h", " ", "n", "o", "t", " ",
           "d", "e", "l", "e", "t", "e">>) }

TtlOutputs ==
  { Raised,
    Text(<<"1", "2", "0", "0", "0", "0">>),
    Text(<<"-", "5">>),
    Text(<<"0">>),
    Text(<<"T", "T", "L", " ", "9", "0", "s">>),
    Text(<<"n", "o", "n", "e">>) }

(***************************************************************************)
(* LlamaModel                                                              *)
(***************************************************************************)
\* response text -> bool; the guard call itself is not wrapped in try/except
check_inappropriate_content(response) ==
  LET r == Lower(Strip(response))
  IN  ~(Contains(r, <<"n", "o">>)
        \/ Contains(r, <<"n", "o", "t", " ", "a", "l", "l", "o", "w", "e", "d">>))

\* analyze_request with a destructive-free but wrong default on failure
analyze_request_refresh_on_error(out) ==
  IF ~out.ok THEN "refresh"
  ELSE LET analysis_result == Lower(Strip(out.text))
       IN  IF Contains(analysis_result, <<"d", "e", "l", "e", "t", "e">>) THEN "delete"
           ELSE IF Contains(analysis_result, <<"r", "e", "f", "r", "e", "s", "h">>)
                THEN "refresh"
           ELSE "keep"

\* the part of analyze_request after the conversation is built
analyze_request(out) ==
  IF ~out.ok THEN "keep"
  ELSE LET analysis_result == Lower(Strip(out.text))
       IN  IF Contains(analysis_result, <<"d", "e", "l", "e", "t", "e">>) THEN "delete"
           ELSE IF Contains(analysis_result, <<"r", "e", "f", "r", "e", "s", "h">>)
                THEN "refresh"
           ELSE "keep"

\* the clamp without its lower bound
ClampUpperOnly(t) == Min(MaxTTL, t)

\* max(60, min(86400, ttl))
Clamp(t) == Max(MinTTL, Min(MaxTTL, t))

\* predict_optimal_ttl whose except branch returns the lower bound
predict_optimal_ttl_min_on_error(out) ==
  IF ~out.ok THEN MinTTL
  ELSE LET numbers == FirstNumber(Strip(out.text))
       IN  IF numbers # << >> THEN Clamp(ToInt(numbers)) ELSE DefaultTTL

\* the part of predict_optimal_ttl after the conversation is built
predict_optimal_ttl(out) ==
  IF ~out.ok THEN DefaultTTL
  ELSE LET numbers == FirstNumber(Strip(out.text))
       IN  IF numbers # << >> THEN Clamp(ToInt(numbers)) ELSE DefaultTTL

(***************************************************************************)
(* The Redis store: hashes and expirations.                                *)
(***************************************************************************)
EmptyHash == [f \in {} |-> 0]

HSet(h, f, v) == [g \in (DOMAIN h) \cup {f} |-> IF g = f THEN v ELSE h[g]]

\* dict.get(f, d)
Get(h, f, d) == IF f \in DOMAIN h THEN h[f] ELSE d

NoTTL == -1

\* a RedisClient that also defines delete_request
RedisClientMethodsWithDelete ==
  {"get_request_data", "set_ttl", "get_all_keys", "get_request_count",
   "increment_request_count", "delete_request"}

\* the methods class RedisClient defines
RedisClientMethods ==
  {"get_request_data", "set_ttl", "get_all_keys", "get_request_count",
   "increment_request_count"}

\* the methods class LlamaModel defines
LlamaModelMethods ==
  {"check_inappropriate_content", "analyze_request", "predict_optimal_ttl"}

UrlLowerX == <<"/", "x">>
UrlUpperX == <<"/", "X">>

Old == StartClock - 80 * 3600
New == StartClock

Rec(method, url, last_used, count) ==
  [f \in {"request_method", "request_url", "request_headers", "last_used",
          "request_count"} |->
     CASE f = "request_method"  -> method
       [] f = "request_url"     -> url
       [] f = "request_headers" -> "{}"
       [] f = "last_used"       -> last_used
       [] f = "request_count"   -> count]

\* a record without request_method
NoMethod(url, last_used, count) ==
  [f \in {"request_url", "request_headers", "last_used", "request_count"} |->
     CASE f = "request_url"     -> url
       [] f = "request_headers" -> "{}"
       [] f = "last_used"       -> last_used
       [] f = "request_count"   -> count]

\* what the proxy (or an earlier partial write) may have left under a key
InitHashes ==
  { EmptyHash,
    Rec("GET", UrlLowerX, Old, 1),
    Rec("GET", UrlUpperX, New, 2),
    Rec("POST", UrlLowerX, New, 1),
    Rec("POST", UrlLowerX, Old, 1),
    HSet(EmptyHash, "request_count", 1),
    NoMethod(UrlLowerX, New, 1) }

\* the stores the runs of several passes start from
RunHashes ==
  { Rec("GET", UrlUpperX, Old, 1),
    Rec("POST", UrlLowerX, Old, 1) }

\* a store in which a POST record has a hash without request_url beside it
RunPair ==
  [k \in Keys |->
     IF k = 1 THEN Rec("POST", UrlLowerX, Old, 1)
     ELSE IF k = 2 THEN HSet(EmptyHash, "request_count", 1)
     ELSE EmptyHash]

Perms(S) ==
  { s \in [1..Cardinality(S) -> S] : \A x \in S : \E i \in DOMAIN s : s[i] = x }

\* KEYS proxy:* returns the existing keys, in no particular order
KeyOrders(h) == Perms({k \in Keys : h[k] # EmptyHash})

\* RequestAnalyzer.compare_urls
compare_urls(url1, url2) == Lower(url1) = Lower(url2)

(***************************************************************************)
(* RequestAnalyzer.delete_old_requests and mark_related_get_as_refresh.    *)
(* Both return the store they leave and the exception that ended them      *)
(* ("none" when they returned), with the key whose record raised it.       *)
(***************************************************************************)
NoKey == 0

\* first loop of delete_old_requests: the latest last_used among the records
\* whose request_url is request_url
RECURSIVE NewestScan(_, _, _, _, _, _)
NewestScan(h, all_keys, i, request_url, newest_time, newest_key) ==
  IF i > Len(all_keys)
  THEN [exc |-> "none", at |-> NoKey, newest_time |-> newest_time,
        newest_key |-> newest_key]
  ELSE LET key == all_keys[i]
           request_data == h[key]
       IN  IF "request_url" \notin DOMAIN request_data
           THEN [exc |-> "KeyError", at |-> key, newest_time |-> newest_time,
                 newest_key |-> newest_key]
           ELSE IF request_data["request_url"] = request_url
                   /\ (newest_key = NoKey
                       \/ Get(request_data, "last_used", 0) > newest_time)
           THEN NewestScan(h, all_keys, i + 1, request_url,
                           Get(request_data, "last_used", 0), key)
           ELSE NewestScan(h, all_keys, i + 1, request_url, newest_time, newest_key)

\* second loop of delete_old_requests
RECURSIVE DeleteScan(_, _, _, _, _, _)
DeleteScan(h, t, all_keys, i, request_url, newest_time) ==
  IF i > Len(all_keys)
  THEN [hashes |-> h, ttl |-> t, exc |-> "none", at |-> NoKey]
  ELSE LET key == all_keys[i]
           request_data == h[key]
       IN  IF "request_url" \notin DOMAIN request_data
           THEN [hashes |-> h, ttl |-> t, exc |-> "KeyError", at |-> key]
           ELSE IF request_data["request_url"] = request_url
                   /\ Get(request_data, "last_used", 0) < newest_time
           THEN IF "delete_request" \in RedisClientMethods
                THEN DeleteScan([h EXCEPT ![key] = EmptyHash],
                                [t EXCEPT ![key] = NoTTL],
                                all_keys, i + 1, request_url, newest_time)
                ELSE [hashes |-> h, ttl |-> t, exc |-> "AttributeError", at |-> key]
           ELSE DeleteScan(h, t, all_keys, i + 1, request_url, newest_time)

delete_old_requests(h, t, all_keys, request_url) ==
  LET first == NewestScan(h, all_keys, 1, request_url, 0, NoKey)
  IN  IF first.exc # "none"
      THEN [hashes |-> h, ttl |-> t, exc |-> first.exc, at |-> first.at]
      ELSE IF first.newest_key # NoKey
      THEN DeleteScan(h, t, all_keys, 1, request_url, first.newest_time)
      ELSE [hashes |-> h, ttl |-> t, exc |-> "none", at |-> NoKey]

\* the loop of mark_related_get_as_refresh; the store read of the failAt-th key
\* fails with a connection error (failAt = 0: no store operation fails)
RECURSIVE MarkScan(_, _, _, _, _, _)
MarkScan(h, all_keys, i, request_url, failAt, done) ==
  IF i > Len(all_keys)
  THEN [hashes |-> h, exc |-> "none", at |-> NoKey, marked |-> done]
  ELSE LET key == all_keys[i]
           request_data == h[key]
       IN  IF i = failAt
           THEN [hashes |-> h, exc |-> "ConnectionError", at |-> key, marked |-> done]
           ELSE IF "request_method" \notin DOMAIN request_data
           THEN [hashes |-> h, exc |-> "KeyError", at |-> key, marked |-> done]
           ELSE IF request_data["request_method"] # "GET"
           THEN MarkScan(h, all_keys, i + 1, request_url, failAt, done)
           ELSE IF "request_url" \notin DOMAIN request_data
           THEN [hashes |-> h, exc |-> "KeyError", at |-> key, marked |-> done]
           ELSE IF compare_urls(request_data["request_url"], request_url)
           THEN MarkScan([h EXCEPT ![key] = HSet(h[key], "purpose", "refresh")],
                         all_keys, i + 1, request_url, failAt, done \cup {key})
           ELSE MarkScan(h, all_keys, i + 1, request_url, failAt, done)

mark_related_get_as_refresh(h, all_keys, request_url, failAt) ==
  MarkScan(h, all_keys, 1, request_url, failAt, {})

(***************************************************************************)
(* State.                                                                  *)
(***************************************************************************)
VARIABLES
  hashes,          \* the store: key -> hash (EmptyHash: the key does not exist)
  ttl,             \* the store: key -> expiration in seconds, NoTTL if none
  stats,           \* the store: stats:ai_predictions
  clock,           \* time.time()
  pc,              \* position of the analyzer thread
  keys,            \* analyze_requests: keys
  idx,             \* analyze_requests: position of the for loop in keys
  request_data,    \* analyze_requests: request_data of the current key
  current_time,    \* analyze_requests: current_time
  processed_count, \* analyze_requests: processed_count
  ai_predictions,  \* analyze_requests: ai_predictions
  budget,          \* calls of analyze_requests still followed
  hist,            \* per key, what the current pass did with it: the verdict of
                   \* the safety check, the action of the classification,
                   \* whether the classification and the TTL prediction raised
                   \* inside the model call, the TTL given to set_ttl, the last
                   \* step of its iteration that completed, how the iteration
                   \* ended, and the exception that ended it with the key whose
                   \* record raised it
  marked,          \* keys a reconciliation of the current pass marked refresh
  raced,           \* keys another actor deleted during the current pass
  hashes0,         \* hashes when the current pass began
  ttl0             \* ttl when the current pass began

vars == <<hashes, ttl, stats, clock, pc, keys, idx, request_data, current_time,
          processed_count, ai_predictions, budget, hist, marked, raced,
          hashes0, ttl0>>

NoHist ==
  [verdict |-> "none", action |-> "none", classFailed |-> FALSE,
   predFailed |-> FALSE, ttlApplied |-> NoTTL, step |-> "none",
   outcome |-> "pending", cause |-> "none", at |-> NoKey]

\* one pass from any store over InitHashes, or MaxCycles passes from a store
\* of one record of RunHashes or from RunPair
Init ==
  /\ \/ budget = 1 /\ hashes \in [Keys -> InitHashes]
     \/ /\ budget = MaxCycles
        /\ \E r \in RunHashes : hashes = [k \in Keys |-> IF k = 1 THEN r ELSE EmptyHash]
     \/ budget = MaxCycles /\ hashes = RunPair
  /\ ttl = [k \in Keys |-> NoTTL]
  /\ stats = 0
  /\ clock = StartClock
  /\ pc = "run"
  /\ keys = << >>
  /\ idx = 1
  /\ request_data = EmptyHash
  /\ current_time = 0
  /\ processed_count = 0
  /\ ai_predictions = 0
  /\ hist = [k \in Keys |-> NoHist]
  /\ marked = {}
  /\ raced = {}
  /\ hashes0 = hashes
  /\ ttl0 = ttl

(***************************************************************************)
(* Control flow of the for loop of analyze_requests.                       *)
(***************************************************************************)
\* a loop body without its try/except
RecordHandlerNone == "propagate"

\* where an exception raised inside the loop body goes: the try/except of the
\* loop body catches it
RecordHandler == "caught"

\* a loop that goes on whatever the safety check returned
AfterSafetyAlways(safe) == "analyze"

\* what the loop does with the result of the safety check
AfterSafety(safe) == IF safe THEN "analyze" ELSE "continue"

\* the next iteration, or the code after the loop
NextKey ==
  /\ idx' = idx + 1
  /\ pc' = IF idx < Len(keys) THEN "for" ELSE "analytics"
  /\ request_data' = EmptyHash

\* an exception raised in the body of the iteration of key
Raise(h, key, cause, at) ==
  /\ hist' = [h EXCEPT ![key].outcome = "error", ![key].cause = cause, ![key].at = at]
  /\ IF RecordHandler = "caught"
     THEN NextKey
     ELSE /\ pc' = "sleep60"
          /\ UNCHANGED <<idx, request_data>>

\* a store operation may fail at any time (redis.exceptions.ConnectionError)
StoreFails == TRUE

(***************************************************************************)
(* analyze_requests                                                        *)
(***************************************************************************)
\* keys = self.redis.get_all_keys() and the locals of the pass
StartCycle ==
  /\ pc = "run"
  /\ budget > 0
  /\ budget' = budget - 1
  /\ \/ /\ StoreFails
        /\ pc' = "sleep60"
        /\ UNCHANGED <<hashes, ttl, stats, clock, keys, idx, request_data,
                       current_time, processed_count, ai_predictions, hist,
                       marked, raced, hashes0, ttl0>>
     \/ \E all_keys \in KeyOrders(hashes) :
          /\ keys' = all_keys
          /\ idx' = 1
          /\ request_data' = EmptyHash
          /\ current_time' = clock
          /\ processed_count' = 0
          /\ ai_predictions' = 0
          /\ hist' = [k \in Keys |-> NoHist]
          /\ marked' = {}
          /\ raced' = {}
          /\ hashes0' = hashes
          /\ ttl0' = ttl
          /\ pc' = IF all_keys = << >> THEN "analytics" ELSE "for"
          /\ UNCHANGED <<hashes, ttl, stats, clock>>

\* request_data = get_request_data(key); the safety check on request_url
ReadAndCheck ==
  /\ pc = "for"
  /\ LET key == keys[idx]
         data == hashes[key]
     IN  /\ \/ /\ StoreFails
               /\ Raise(hist, key, "ConnectionError", key)
            \/ /\ "request_url" \notin DOMAIN data
               /\ Raise(hist, key, "KeyError", key)
            \/ /\ "request_url" \in DOMAIN data
               /\ \E guard \in GuardOutputs :
                    IF ~guard.ok
                    THEN Raise(hist, key, "ModelError", key)
                    ELSE LET safe == check_inappropriate_content(guard.text)
                         IN  IF AfterSafety(safe) = "analyze"
                             THEN /\ hist' = [hist EXCEPT ![key].verdict =
                                                IF safe THEN "safe" ELSE "unsafe",
                                                          ![key].step = "read"]
                                  /\ request_data' = data
                                  /\ pc' = "analyze"
                                  /\ UNCHANGED idx
                             ELSE /\ hist' = [hist EXCEPT ![key].verdict = "unsafe",
                                                          ![key].outcome = "skipped"]
                                  /\ NextKey
         /\ UNCHANGED <<hashes, ttl, stats, clock, keys, current_time,
                        processed_count, ai_predictions, budget, marked, raced,
                        hashes0, ttl0>>

\* action = analyze_request(request_data) and the branch on action
Analyze ==
  /\ pc = "analyze"
  /\ LET key == keys[idx] IN
     /\ \/ \* building the conversation reads request_method and request_headers
           /\ ~({"request_method", "request_headers"} \subseteq DOMAIN request_data)
           /\ Raise(hist, key, "KeyError", key)
           /\ UNCHANGED <<hashes, ttl, ai_predictions>>
        \/ /\ {"request_method", "request_headers"} \subseteq DOMAIN request_data
           /\ \E out \in PipeOutputs :
                LET action == analyze_request(out)
                    h1 == [hist EXCEPT ![key].action = action,
                                       ![key].classFailed = ~out.ok]
                IN  /\ ai_predictions' = ai_predictions + 1
                    /\ IF action = "delete"
                       THEN IF "delete_request" \in RedisClientMethods
                            THEN \/ /\ StoreFails
                                    /\ Raise(h1, key, "ConnectionError", key)
                                    /\ UNCHANGED <<hashes, ttl>>
                                 \/ /\ hashes' = [hashes EXCEPT ![key] = EmptyHash]
                                    /\ ttl' = [ttl EXCEPT ![key] = NoTTL]
                                    /\ hist' = [h1 EXCEPT ![key].step = "analyze"]
                                    /\ pc' = "ttl"
                                    /\ UNCHANGED <<idx, request_data>>
                            ELSE /\ Raise(h1, key, "AttributeError", key)
                                 /\ UNCHANGED <<hashes, ttl>>
                       ELSE \/ /\ StoreFails
                               /\ Raise(h1, key, "ConnectionError", key)
                               /\ UNCHANGED <<hashes, ttl>>
                            \/ /\ hashes' = [hashes EXCEPT
                                              ![key] = HSet(hashes[key], "purpose", action)]
                               /\ hist' = [h1 EXCEPT ![key].step = "analyze"]
                               /\ pc' = "ttl"
                               /\ UNCHANGED <<idx, request_data, ttl>>
     /\ UNCHANGED <<stats, clock, keys, current_time, processed_count, budget,
                    marked, raced, hashes0, ttl0>>

\* a TTL condition that forgets the idle time
ttl_due_any_age(request_count, now, last_used_time) == request_count = 1

\* the condition of the TTL optimization block
ttl_due(request_count, now, last_used_time) ==
  request_count = 1 /\ (now - last_used_time) > IdleHours * 3600

\* the TTL optimization block
Ttl ==
  /\ pc = "ttl"
  /\ LET key == keys[idx]
         request_count == Get(hashes[key], "request_count", 0)
         last_used_time == Get(request_data, "last_used", 0)
         after == IF request_data["request_method"] = "POST" THEN "post" ELSE "incr"
     IN  /\ \/ \* get_request_count fails
               /\ StoreFails
               /\ Raise(hist, key, "ConnectionError", key)
               /\ UNCHANGED ttl
            \/ /\ ~ttl_due(request_count, current_time, last_used_time)
               /\ pc' = after
               /\ hist' = [hist EXCEPT ![key].step = "ttl"]
               /\ UNCHANGED <<ttl, idx, request_data>>
            \/ /\ ttl_due(request_count, current_time, last_used_time)
               /\ \E out \in TtlOutputs :
                    LET optimal_ttl == predict_optimal_ttl(out)
                        h1 == [hist EXCEPT ![key].predFailed = ~out.ok]
                    IN  \/ \* set_ttl fails
                           /\ StoreFails
                           /\ Raise(h1, key, "ConnectionError", key)
                           /\ UNCHANGED ttl
                        \/ /\ ttl' = IF hashes[key] # EmptyHash
                                     THEN [ttl EXCEPT ![key] = optimal_ttl]
                                     ELSE ttl
                           /\ hist' = [h1 EXCEPT ![key].ttlApplied = optimal_ttl,
                                                 ![key].step = "ttl"]
                           /\ pc' = after
                           /\ UNCHANGED <<idx, request_data>>
         /\ UNCHANGED <<hashes, stats, clock, keys, current_time, processed_count,
                        ai_predictions, budget, marked, raced, hashes0, ttl0>>

\* the POST block: delete_old_requests, then mark_related_get_as_refresh
Post ==
  /\ pc = "post"
  /\ LET key == keys[idx]
         request_url == request_data["request_url"]
         h1 == hist
     IN  /\ \/ \* get_all_keys of delete_old_requests fails
               /\ StoreFails
               /\ Raise(h1, key, "ConnectionError", key)
               /\ UNCHANGED <<hashes, ttl, marked>>
            \/ \E keys1 \in KeyOrders(hashes) :
                 LET old == delete_old_requests(hashes, ttl, keys1, request_url)
                 IN  IF old.exc # "none"
                     THEN /\ hashes' = old.hashes
                          /\ ttl' = old.ttl
                          /\ Raise(h1, key, old.exc, old.at)
                          /\ UNCHANGED <<marked>>
                     ELSE \/ \* get_all_keys of mark_related_get_as_refresh fails
                             /\ StoreFails
                             /\ hashes' = old.hashes
                             /\ ttl' = old.ttl
                             /\ Raise(h1, key, "ConnectionError", key)
                             /\ UNCHANGED marked
                          \/ \E keys2 \in KeyOrders(old.hashes) :
                             \E failAt \in 0..Len(keys2) :
                               LET new == mark_related_get_as_refresh(
                                            old.hashes, keys2, request_url, failAt)
                               IN  /\ failAt # 0 => (StoreFails /\ new.exc = "ConnectionError")
                                   /\ hashes' = new.hashes
                                   /\ ttl' = old.ttl
                                   /\ marked' = marked \cup new.marked
                                   /\ IF new.exc # "none"
                                      THEN Raise(h1, key, new.exc, new.at)
                                      ELSE /\ hist' = [h1 EXCEPT ![key].step = "post"]
                                           /\ pc' = "incr"
                                           /\ UNCHANGED <<idx, request_data>>
         /\ UNCHANGED <<stats, clock, keys, current_time, processed_count,
                        ai_predictions, budget, raced, hashes0, ttl0>>

\* increment_request_count, processed_count += 1, self.llama.update_cache
Incr ==
  /\ pc = "incr"
  /\ LET key == keys[idx] IN
     /\ \/ /\ StoreFails
           /\ Raise(hist, key, "ConnectionError", key)
           /\ UNCHANGED <<hashes, processed_count>>
        \/ /\ hashes' = [hashes EXCEPT ![key] =
                           HSet(hashes[key], "request_count",
                                Get(hashes[key], "request_count", 0) + 1)]
           /\ processed_count' = processed_count + 1
           /\ LET h1 == [hist EXCEPT ![key].step = "incr"]
              IN  IF "update_cache" \in LlamaModelMethods
                  THEN /\ hist' = [h1 EXCEPT ![key].outcome = "ok"]
                       /\ NextKey
                  ELSE Raise(h1, key, "AttributeError", key)
     /\ UNCHANGED <<ttl, stats, clock, keys, current_time, ai_predictions, budget,
                    marked, raced, hashes0, ttl0>>

\* self.analytics.update_ai_predictions(ai_predictions), then return
Analytics ==
  /\ pc = "analytics"
  /\ \/ /\ StoreFails
        /\ pc' = "sleep60"
        /\ UNCHANGED stats
     \/ /\ stats' = stats + ai_predictions
        /\ pc' = "sleep600"
  /\ UNCHANGED <<hashes, ttl, clock, keys, idx, request_data, current_time,
                 processed_count, ai_predictions, budget, hist, marked, raced,
                 hashes0, ttl0>>

(***************************************************************************)
(* run: the two sleeps of the loop                                         *)
(***************************************************************************)
Sleep600 ==
  /\ pc = "sleep600"
  /\ clock' = clock + RunInterval
  /\ pc' = "run"
  /\ UNCHANGED <<hashes, ttl, stats, keys, idx, request_data, current_time,
                 processed_count, ai_predictions, budget, hist, marked, raced,
                 hashes0, ttl0>>

\* a run whose except clause leaves the while loop after its wait
Sleep60Exit ==
  /\ pc = "sleep60"
  /\ clock' = clock + RetryDelay
  /\ pc' = "exit"
  /\ UNCHANGED <<hashes, ttl, stats, keys, idx, request_data, current_time,
                 processed_count, ai_predictions, budget, hist, marked, raced,
                 hashes0, ttl0>>

Sleep60 ==
  /\ pc = "sleep60"
  /\ clock' = clock + RetryDelay
  /\ pc' = "run"
  /\ UNCHANGED <<hashes, ttl, stats, keys, idx, request_data, current_time,
                 processed_count, ai_predictions, budget, hist, marked, raced,
                 hashes0, ttl0>>

(***************************************************************************)
(* Another actor of the store (the proxy, or expiry) removes a key.        *)
(***************************************************************************)
InPass == pc \in {"for", "analyze", "ttl", "post", "incr"}

ExternalDelete ==
  /\ InPass
  /\ Cardinality(raced) < MaxRaces
  /\ \E key \in Keys :
       /\ hashes[key] # EmptyHash
       /\ hashes' = [hashes EXCEPT ![key] = EmptyHash]
       /\ ttl' = [ttl EXCEPT ![key] = NoTTL]
       /\ raced' = raced \cup {key}
  /\ UNCHANGED <<stats, clock, pc, keys, idx, request_data, current_time,
                 processed_count, ai_predictions, budget, hist, marked,
                 hashes0, ttl0>>

Next ==
  \/ StartCycle
  \/ ReadAndCheck
  \/ Analyze
  \/ Ttl
  \/ Post
  \/ Incr
  \/ Analytics
  \/ Sleep600
  \/ Sleep60

Spec == Init /\ [][Next]_vars

\* the analyzer together with another actor of the store
RaceNext == Next \/ ExternalDelete

RaceSpec == Init /\ [][RaceNext]_vars

\* the analyzer thread keeps running: a step it can take is eventually taken
\* (a sleep ends, a call of the pass returns or raises)
LiveSpec == Spec /\ WF_vars(Next)

(***************************************************************************)
(* Properties.                                                             *)
(***************************************************************************)
\* analyze_requests has returned
Returned == pc = "sleep600"

\* the POST block of the current key runs in this step, and no store operation
\* of it fails
PostStep ==
  /\ pc = "post"
  /\ pc' # "post"
  /\ hist'[keys[idx]].cause # "ConnectionError"

HasUrl(h, key, url) ==
  "request_url" \in DOMAIN h[key] /\ h[key]["request_url"] = url

\* C1: when analyze_requests returns, every key of the pass whose
\* classification returned 'delete' is absent from the store, no other actor
\* having written to the store during the pass.
C1_DeletedAbsent ==
  (Returned /\ raced = {}) =>
    \A k \in Keys : hist[k].action = "delete" => hashes[k] = EmptyHash

\* C2: a record that makes its own processing fail (here: a record without
\* request_url or request_method, which raises KeyError) does not make the
\* processing of any other key fail: a KeyError ends the iteration of the key
\* whose record raised it, and of no other key.
C2_FailureIsolated ==
  \A k \in Keys :
    (hist[k].outcome = "error" /\ hist[k].cause = "KeyError") => hist[k].at = k

\* C3: when the pass ends, processed_count is the number of keys whose every
\* step, the training notification included, completed without raising.
C3_CountsSuccesses ==
  Returned => processed_count = Cardinality({k \in Keys : hist[k].outcome = "ok"})

\* C4: after the reconciliation that the processing of a POST record with URL u
\* triggers (the store being reachable), exactly one of the records that had
\* URL u is left in the store, and it has the greatest last_used among them.
C4_OneNewestLeft ==
  [][PostStep =>
       LET u == request_data["request_url"]
           same == {k \in Keys : HasUrl(hashes, k, u)}
           left == {k \in same : hashes'[k] # EmptyHash}
       IN  same # {} =>
             /\ Cardinality(left) = 1
             /\ \A k \in left : \A j \in same :
                  Get(hashes[k], "last_used", 0) >= Get(hashes[j], "last_used", 0)
    ]_vars

\* C5: after a POST record with URL u has been processed (the store being
\* reachable), every GET record in the store whose URL equals u
\* case-insensitively has purpose = refresh, also when the deletion of the
\* older records failed or deleted nothing.
C5_GetsMarkedRefresh ==
  [][PostStep =>
       \A k \in Keys :
         ( /\ Get(hashes'[k], "request_method", "none") = "GET"
           /\ "request_url" \in DOMAIN hashes'[k]
           /\ compare_urls(hashes'[k]["request_url"], request_data["request_url"]) )
         => Get(hashes'[k], "purpose", "unset") = "refresh"
    ]_vars

\* what C6 speaks of: existence, request_count, purpose and TTL of a key
Observed(h, t, k) ==
  [exists        |-> h[k] # EmptyHash,
   request_count |-> Get(h[k], "request_count", 0),
   purpose       |-> Get(h[k], "purpose", "unset"),
   ttl           |-> t[k]]

\* C6 as stated: a record whose safety check returned false has the same
\* existence, request_count, purpose and TTL after the pass as before it,
\* whatever else is in the store (no other actor having removed it).
C6_UnsafeUntouched ==
  Returned =>
    \A k \in Keys :
      (hist[k].verdict = "unsafe" /\ k \notin raced) =>
        Observed(hashes, ttl, k) = Observed(hashes0, ttl0, k)

\* C6 as amended: a record whose safety check returned false keeps its
\* existence, request_count, purpose and TTL through the pass, except that its
\* purpose is 'refresh' once the reconciliation of a POST record with a
\* case-insensitively equal URL has marked it (no other actor having removed it).
C6_UnsafeOnlyMarked ==
  \A k \in Keys :
    (hist[k].verdict = "unsafe" /\ k \notin raced) =>
      \/ Observed(hashes, ttl, k) = Observed(hashes0, ttl0, k)
      \/ /\ k \in marked
         /\ Observed(hashes, ttl, k) =
              [Observed(hashes0, ttl0, k) EXCEPT !.purpose = "refresh"]

\* an unsafe record that a reconciliation of the same pass marked refresh
C6_Witness ==
  /\ Returned
  /\ \E k \in Keys :
       /\ hist[k].verdict = "unsafe"
       /\ k \in marked
       /\ Get(hashes0[k], "purpose", "unset") # "refresh"
       /\ Get(hashes[k], "purpose", "unset") = "refresh"

\* the classification of key k raised inside the model call and the purpose
\* write that follows it succeeded
FailedClass(k) ==
  /\ hist[k].classFailed
  /\ hist[k].step \in {"analyze", "ttl", "post", "incr"}
  /\ k \notin raced

\* C7 as stated: a record whose classification call failed internally is not
\* deleted and has purpose 'keep' after the pass.
C7_FailedClassKeep ==
  Returned =>
    \A k \in Keys :
      FailedClass(k) =>
        hashes[k] # EmptyHash /\ Get(hashes[k], "purpose", "unset") = "keep"

\* C7 as amended: a record whose classification call failed internally is not
\* deleted and gets purpose 'keep'; its purpose stays 'keep' to the end of the
\* pass unless the reconciliation of a POST record with a case-insensitively
\* equal URL marks it 'refresh'.
C7_FailedClassKeepOrMarked ==
  \A k \in Keys :
    FailedClass(k) =>
      /\ hashes[k] # EmptyHash
      /\ \/ Get(hashes[k], "purpose", "unset") = "keep"
         \/ k \in marked /\ Get(hashes[k], "purpose", "unset") = "refresh"

\* a record whose classification failed and that ends the pass with 'keep'
C7_Witness ==
  /\ Returned
  /\ \E k \in Keys :
       /\ FailedClass(k)
       /\ Get(hashes0[k], "purpose", "unset") = "unset"
       /\ Get(hashes[k], "purpose", "unset") = "keep"

\* C8: every TTL predict_optimal_ttl returns, and so every TTL the pass gives
\* to set_ttl and every TTL it leaves in the store, is in [60, 86400]; a
\* generated "120000" yields 86400.
C8_TtlInRange ==
  /\ \A k \in Keys :
       /\ hist[k].ttlApplied # NoTTL => hist[k].ttlApplied \in MinTTL..MaxTTL
       /\ ttl[k] # NoTTL => ttl[k] \in MinTTL..MaxTTL
  /\ \A out \in TtlOutputs : predict_optimal_ttl(out) \in MinTTL..MaxTTL
  /\ predict_optimal_ttl(Text(<<"1", "2", "0", "0", "0", "0">>)) = MaxTTL

\* both ends of the range have been applied in one pass
C8_Witness ==
  /\ \E k \in Keys : hist[k].ttlApplied = MaxTTL /\ ttl[k] = MaxTTL
  /\ \E k \in Keys : hist[k].ttlApplied = MinTTL /\ ttl[k] = MinTTL

\* the set_ttl call of key k failed with a connection error
SetTtlFailed(k) ==
  /\ hist[k].step = "analyze"
  /\ hist[k].outcome = "error"
  /\ hist[k].cause = "ConnectionError"

\* C9: when adaptive expiration is triggered and the prediction call fails
\* internally, the TTL given to set_ttl is 3600 and the iteration goes on with
\* the steps after the TTL block (unless set_ttl itself fails).
C9_FailedPredictionDefault ==
  \A k \in Keys :
    hist[k].predFailed =>
      \/ SetTtlFailed(k)
      \/ /\ hist[k].ttlApplied = DefaultTTL
         /\ hist[k].step \in {"ttl", "post", "incr"}
         /\ (pc \in {"post", "incr"} /\ keys[idx] = k /\ raced = {}) =>
              ttl[k] = DefaultTTL

\* a failed prediction after which the counter of the record was incremented
C9_Witness ==
  \E k \in Keys :
    /\ hist[k].predFailed
    /\ hist[k].step = "incr"
    /\ ttl[k] = DefaultTTL
    /\ Get(hashes[k], "request_count", 0) = Get(hashes0[k], "request_count", 0) + 1

\* the positions inside the for loop of analyze_requests
InLoop == pc \in {"for", "analyze", "ttl", "post", "incr"}

\* C10: the scheduler goes from a returned cycle to the 600 s wait and from
\* there to another cycle; it goes to the 60 s wait only from a raise at the
\* top level of the cycle (the key enumeration or the analytics update), never
\* from inside the per-record loop, and from the 60 s wait back to a cycle.
C10_Scheduler ==
  [][ /\ (pc' = "sleep60" /\ pc # "sleep60") => pc \in {"run", "analytics"}
      /\ (pc' = "sleep600" /\ pc # "sleep600") => pc = "analytics"
      /\ (pc = "sleep600" /\ pc' # pc) => (pc' = "run" /\ clock' = clock + RunInterval)
      /\ (pc = "sleep60" /\ pc' # pc) => (pc' = "run" /\ clock' = clock + RetryDelay)
      /\ InLoop => pc' \in {"for", "analyze", "ttl", "post", "incr", "analytics"}
    ]_vars

\* a cycle with a per-record error returned, the 600 s wait is over and the
\* next cycle is about to start
C10_Witness ==
  /\ pc = "run"
  /\ budget > 0
  /\ clock = StartClock + RunInterval
  /\ \E k \in Keys : hist[k].outcome = "error"

\* the iteration of some key ends in this step with a store failure
StoreFailureInLoop ==
  \E k \in Keys :
    hist'[k].cause = "ConnectionError" /\ hist[k].cause # "ConnectionError"

\* C11: a failure of a store operation during a pass (the key enumeration, or
\* a read, field write, counter increment, expiration or delete inside the
\* per-record loop) ends the pass and sends run to its 60 s wait; it is not
\* absorbed as the error of one record.
C11_StoreFailureEscalates ==
  [][StoreFailureInLoop => pc' = "sleep60"]_vars

\* C12: run has no terminal state: whenever a cycle has ended, returned (the
\* 600 s wait) or raised (the 60 s wait), and the model still follows cycles,
\* the wait ends and another cycle is started.
C12_AnotherCycleStarts ==
  \A n \in 1..MaxCycles :
    (pc \in {"sleep600", "sleep60"} /\ budget = n) ~> (budget = n - 1)

\* a cycle raised, the 60 s wait ended and the next cycle is in its loop
C12_Witness ==
  /\ budget = MaxCycles - 2
  /\ clock = StartClock + RetryDelay
  /\ InLoop

\* the pass counted key k as processed (processed_count += 1 ran for it)
Counted(k) == hist[k].step = "incr"

\* C13: when the pass ends, every record it counted as processed and that is
\* in the store has purpose 'keep' or 'refresh', and no record has a purpose
\* other than these two.
C13_ProcessedHasPurpose ==
  Returned =>
    \A k \in Keys :
      /\ (Counted(k) /\ hashes[k] # EmptyHash) =>
           Get(hashes[k], "purpose", "unset") \in {"keep", "refresh"}
      /\ Get(hashes[k], "purpose", "unset") \in {"unset", "keep", "refresh"}

\* C14: once the classification of a key returned 'delete', no later step of
\* its iteration runs in that pass: its iteration ends there, no expiration is
\* set for it, its POST block does not run, its counter is not incremented and
\* update_cache is not called for it.
C14_DeleteSkipsRest ==
  \A k \in Keys :
    hist[k].action = "delete" =>
      /\ hist[k].step = "read"
      /\ hist[k].outcome = "error"
      /\ hist[k].ttlApplied = NoTTL
      /\ ~Counted(k)
      /\ k \notin raced =>
           /\ ttl[k] = ttl0[k]
           /\ Get(hashes[k], "request_count", 0) = Get(hashes0[k], "request_count", 0)

\* a pass that classified one key 'delete' and counted another has returned
C14_Witness ==
  /\ Returned
  /\ \E k, j \in Keys :
       /\ hist[k].action = "delete"
       /\ Get(hashes0[k], "request_count", 0) = 1
       /\ current_time - Get(hashes0[k], "last_used", 0) > IdleHours * 3600
       /\ Counted(j)

\* key k passed the safety check, was not classified 'delete', and its record
\* had request_count 1 and was idle for more than 72 hours when the pass began
Eligible(k) ==
  /\ hist[k].verdict = "safe"
  /\ hist[k].action # "delete"
  /\ Get(hashes0[k], "request_count", 0) = 1
  /\ current_time - Get(hashes0[k], "last_used", 0) > IdleHours * 3600

\* the pass has set the expiration of key k
TtlSet(k) == hist[k].ttlApplied # NoTTL

\* C15 as stated: in a pass the expiration of a record is set if and only if
\* the record passed the safety check, was not classified 'delete', has
\* request_count 1 and has been idle for more than 72 hours; the TTL of any
\* other record is not changed by the pass.
C15_TtlIffEligible ==
  Returned =>
    \A k \in Keys :
      /\ TtlSet(k) <=> Eligible(k)
      /\ (~Eligible(k) /\ k \notin raced) => ttl[k] = ttl0[k]

\* C15 as amended: the expiration of a record is set only if the record is
\* eligible as above, and it is set for every eligible record whose iteration
\* got through the TTL block; a record whose expiration the pass did not set
\* keeps its TTL, and one whose expiration it set has the TTL given to set_ttl.
C15_TtlIffEligibleAndReached ==
  \A k \in Keys :
    /\ TtlSet(k) => Eligible(k)
    /\ (Eligible(k) /\ hist[k].step \in {"ttl", "post", "incr"} /\ k \notin raced)
         => TtlSet(k)
    /\ (~TtlSet(k) /\ k \notin raced) => ttl[k] = ttl0[k]
    /\ (TtlSet(k) /\ k \notin raced) => ttl[k] = hist[k].ttlApplied

\* a pass that set the expiration of one record and left alone a record it
\* processed to the end has returned
C15_Witness ==
  /\ Returned
  /\ \E k, j \in Keys :
       /\ TtlSet(k) /\ ttl[k] # ttl0[k]
       /\ ~Eligible(j) /\ Counted(j) /\ ttl[j] = ttl0[j]

\* the analyzer takes a step at the head of the iteration of a key whose
\* record is no longer in the store
ReadsRemovedKey ==
  /\ pc = "for"
  /\ hashes[keys[idx]] = EmptyHash
  /\ (pc' # pc \/ idx' # idx)

\* key k had a well-formed record when the pass began and the read step of its
\* iteration raised KeyError: the record was gone at its turn
GoneAtTurn(k) ==
  /\ "request_url" \in DOMAIN hashes0[k]
  /\ hist[k].step = "none"
  /\ hist[k].cause = "KeyError"

\* C16: the keys of a pass are enumerated once, at its start; for a key of
\* that snapshot whose record was removed before its turn the analyzer writes
\* nothing, counts nothing and goes on to the next key of the snapshot, and
\* the key is still absent afterwards.
C16_RemovedKeySkipped ==
  /\ [][ /\ (InPass /\ pc' # "run") => keys' = keys
         /\ ReadsRemovedKey =>
              /\ hashes' = hashes
              /\ ttl' = ttl
              /\ processed_count' = processed_count
              /\ ai_predictions' = ai_predictions
              /\ idx' = idx + 1
              /\ pc' = IF idx < Len(keys) THEN "for" ELSE "analytics"
      ]_vars
  /\ [](\A k \in Keys : GoneAtTurn(k) => (hashes[k] = EmptyHash /\ ~Counted(k)))

\* a pass in which a record was removed before its turn and a later key was
\* counted has returned
C16_Witness ==
  /\ Returned
  /\ Len(keys) = 2
  /\ GoneAtTurn(keys[1])
  /\ keys[1] \in raced
  /\ Counted(keys[2])

\* a model call of the iteration of key k raised: the safety check, the
\* classification or the TTL prediction
IntelligenceFailed(k) ==
  hist[k].cause = "ModelError" \/ hist[k].classFailed \/ hist[k].predFailed

\* the iteration of key k was ended, before the count, by something that is
\* not a model call: a store failure, a malformed record, a missing method
EndedByOther(k) ==
  /\ ~Counted(k)
  /\ hist[k].cause \in {"ConnectionError", "KeyError", "AttributeError"}

\* C17: a model call that fails (safety check, classification or TTL
\* prediction) does not end the processing of the record: the default of the
\* call is applied, the remaining steps run and the record is counted as
\* processed, unless something other than a model call ends the iteration.
C17_IntelligenceFailureContinues ==
  Returned =>
    \A k \in Keys :
      IntelligenceFailed(k) =>
        /\ Counted(k) \/ EndedByOther(k)
        /\ hist[k].classFailed => hist[k].action = "keep"
        /\ hist[k].predFailed => hist[k].ttlApplied \in {NoTTL, DefaultTTL}

\* the keys the pass counted as processed and for which the classification or
\* the TTL prediction called the model
AiAssisted ==
  {k \in Keys : Counted(k) /\ (hist[k].action # "none" \/ TtlSet(k))}

\* no store operation of the current pass has failed
StoreReachable == \A k \in Keys : hist[k].cause # "ConnectionError"

\* C18: what the pass adds to stats:ai_predictions (the store being reachable)
\* is the number of keys it counted as processed and for which the
\* classification or the TTL prediction called the model; a key it did not
\* count adds nothing.
C18_PredictionsOfProcessed ==
  [][(pc = "analytics" /\ pc' = "sleep600" /\ StoreReachable) =>
       stats' - stats = Cardinality(AiAssisted)]_vars

\* C19: the analyzer never creates a record: whatever other actors delete in
\* between, every key that is in the store after a step was in the store
\* before it (a key deleted during a pass is not brought back by a later
\* purpose write or counter increment of that pass).
C19_NeverCreates ==
  [][\A k \in Keys : hashes'[k] # EmptyHash => hashes[k] # EmptyHash]_vars

\* the pass sets the expiration of key k in this step
SetsTtl(k) == hist'[k].ttlApplied # NoTTL /\ hist[k].ttlApplied = NoTTL

\* C20: with no other actor writing to the store, adaptive expiration is
\* applied to a record in at most one pass: a pass that sets the TTL of a
\* record finds it without one, and when that pass returns (the store having
\* been reachable) the request_count of the record is greater than 1.
C20_TtlSetInOnePass ==
  /\ [][\A k \in Keys : SetsTtl(k) => ttl[k] = NoTTL]_vars
  /\ []((Returned /\ StoreReachable) =>
          \A k \in Keys : TtlSet(k) => Get(hashes[k], "request_count", 0) > 1)

====
